---- MODULE Spec2Model ----
(***************************************************************************)
(* Model of hs.py: one run of the script is the linear pipeline            *)
(*   bond-code fetch -> bond average -> per-target fetch -> ratios ->      *)
(*   sort -> load notification log -> notifier loop -> save log -> report. *)
(* Prices are exact rationals [num, den] (den > 0, lowest terms); None is  *)
(* the record with den = 0.  Text fields of the quote endpoint are         *)
(* sequences of one-character strings and are parsed as the code parses    *)
(* them.  The values open_price / prev_close, the display name and the     *)
(* note are carried by the script but read by nothing modelled here; only  *)
(* whether their conversion raises is kept.                                *)
(***************************************************************************)
EXTENDS Integers, Sequences, FiniteSets, TLC

VARIABLES
    pc,                       \* position of the script in its main block
    idx,                      \* index of the for-loop in progress
    run,                      \* number of the run in progress (runs of one day)
    codes_list,               \* hs.py:486
    cb_error_msg,             \* hs.py:486
    cb_avg_data_for_display,  \* hs.py:478
    response,                 \* latest response of the quote endpoint
    all_stock_data,           \* hs.py:477
    notification_log,         \* hs.py:548, the value json.load returned
    loaded_log,               \* copy of notification_log as it was loaded
    log_updated,              \* hs.py:549
    logFile,                  \* notification_log.json on disk
    sckey,                    \* whether SERVERCHAN_SCKEY is set
    pushed,                   \* codes send_serverchan_notification was called for, this run
    push_failed,              \* codes whose call returned False, this run
    push_posts,               \* codes a request was posted to the push service for, this run
    delivered,                \* code -> number of pushes the service accepted today
    log_writes,               \* calls of save_notification_log in this run
    file_at_start,            \* notification_log.json as the run found it
    html_content,             \* rows handed to the report write (hs.py:592)
    report_written,           \* outcome of this run's write of index_price.html
    requests                  \* quote requests issued in this run, in order of issue

vars == <<pc, idx, run, codes_list, cb_error_msg, cb_avg_data_for_display, response,
          all_stock_data, notification_log, loaded_log, log_updated, logFile, sckey,
          pushed, push_failed, push_posts, delivered, log_writes, file_at_start, html_content,
          report_written, requests>>

----------------------------------------------------------------------------
(* Exact arithmetic standing for Python floats.                            *)

Abs(n) == IF n < 0 THEN -n ELSE n

RECURSIVE GCD(_, _)
GCD(a, b) == IF b = 0 THEN a ELSE GCD(b, a % b)

\* The rational n/d (d # 0) in lowest terms with a positive denominator.
R(n, d) ==
    LET s == IF d < 0 THEN -1 ELSE 1
        g == GCD(Abs(n), Abs(d))
    IN [num |-> (s * n) \div g, den |-> (s * d) \div g]

None == [num |-> 0, den |-> 0]
IsNone(x) == x.den = 0

RAdd(a, b) == R(a.num * b.den + b.num * a.den, a.den * b.den)
RSub(a, b) == R(a.num * b.den - b.num * a.den, a.den * b.den)
RDiv(a, b) == R(a.num * b.den, a.den * b.num)
RLess(a, b) == a.num * b.den < b.num * a.den
RLeq(a, b) == a.num * b.den <= b.num * a.den
RAbs(a) == [num |-> Abs(a.num), den |-> a.den]

RECURSIVE Pow10(_)
Pow10(k) == IF k = 0 THEN 1 ELSE 10 * Pow10(k - 1)

----------------------------------------------------------------------------
(* Text fields: sequences of one-character strings.                        *)

Digits == <<"0", "1", "2", "3", "4", "5", "6", "7", "8", "9">>
DigitVal(c) == (CHOOSE i \in 1..10 : Digits[i] = c) - 1
IsDigitChar(c) == \E i \in 1..10 : Digits[i] = c

\* str.isdigit(): non-empty and digits only.
isdigit(s) == Len(s) > 0 /\ \A i \in 1..Len(s) : IsDigitChar(s[i])

DotPositions(s) == {i \in 1..Len(s) : s[i] = "."}
FirstDot(s) == CHOOSE i \in DotPositions(s) : \A j \in DotPositions(s) : i <= j

\* s.replace('.', '', 1)
replace_first_dot(s) ==
    IF DotPositions(s) = {} THEN s
    ELSE SubSeq(s, 1, FirstDot(s) - 1) \o SubSeq(s, FirstDot(s) + 1, Len(s))

\* The test `price_str and price_str.replace('.', '', 1).isdigit()`.
is_price_str(s) == s # <<>> /\ isdigit(replace_first_dot(s))

RECURSIVE IntVal(_)
IntVal(s) ==
    IF s = <<>> THEN 0
    ELSE 10 * IntVal(SubSeq(s, 1, Len(s) - 1)) + DigitVal(s[Len(s)])

\* float(s) of a string that passed is_price_str.
float(s) ==
    LET frac == IF DotPositions(s) = {} THEN 0 ELSE Len(s) - FirstDot(s)
    IN R(IntVal(replace_first_dot(s)), Pow10(frac))

\* Whether float(s) returns rather than raising ValueError, for the strings
\* over digits, "." and "-" used here.
float_ok(s) ==
    LET body == IF s # <<>> /\ s[1] = "-" THEN Tail(s) ELSE s
    IN isdigit(replace_first_dot(body))

startswith(s, p) == Len(s) >= Len(p) /\ SubSeq(s, 1, Len(p)) = p

----------------------------------------------------------------------------
(* Configuration.                                                          *)

MAX_CB_PRICE == 1000
NOTIFICATION_TOLERANCE == R(5, 1000)

\* Keys of ALL_TARGET_CONFIGS in insertion order.
ConfigOrder == <<"SSEC", "399975", "USD/CNY", "CB/AVG">>
NumTargets == Len(ConfigOrder)

ALL_TARGET_CONFIGS ==
    [code \in {ConfigOrder[i] : i \in 1..NumTargets} |->
        CASE code = "SSEC" ->
               [type |-> "SINA", api_code |-> "sh000001", target_price |-> R(3000, 1)]
          [] code = "399975" ->
               [type |-> "SINA", api_code |-> "sz399975", target_price |-> R(700, 1)]
          [] code = "USD/CNY" ->
               [type |-> "SINA", api_code |-> "fx_susdcny", target_price |-> R(68, 10)]
          [] code = "CB/AVG" ->
               [type |-> "CB_AVG", api_code |-> "None", target_price |-> R(115, 1)]]

TargetCodes == DOMAIN ALL_TARGET_CONFIGS

\* stock_api_code.startswith('fx_') for the configured lookup codes.
startswith_fx(stock_api_code) == stock_api_code = "fx_susdcny"

----------------------------------------------------------------------------
(* Fetchers.  A fetcher returns api_data: error = "" stands for a dict     *)
(* without the key "error", count = 0 for one without the key "count".     *)

Detail(msg, n) == [msg |-> msg, n |-> n]

ErrorData(error, detail) ==
    [error |-> error, detail |-> detail, current_price |-> None, count |-> 0]

QuoteData(price, count) ==
    [error |-> "", detail |-> Detail("", 0), current_price |-> price, count |-> count]

\* error kinds: fetch_failed = "获取失败", parse_failed = "解析失败",
\* network_error = "网络错误", unknown_error = "未知错误",
\* calc_failed = "计算失败", codes_failed = "代码列表获取失败".
get_data_sina(stock_api_code, resp) ==
    IF resp.exc = "RequestException" THEN
        ErrorData("network_error", Detail("exception", 0))
    ELSE IF resp.exc # "none" THEN
        ErrorData("unknown_error", Detail("exception", 0))
    ELSE IF resp.status_code # 200 \/ ~resp.has_assign THEN
        ErrorData("fetch_failed", Detail("http_status", resp.status_code))
    ELSE IF Len(resp.parts) < 4 THEN
        IF /\ startswith_fx(stock_api_code)
           /\ Len(resp.parts) >= 4
           /\ isdigit(replace_first_dot(resp.parts[4]))
        THEN QuoteData(float(resp.parts[4]), 0)
        ELSE ErrorData("parse_failed", Detail("too_few_fields", 0))
    ELSE IF is_price_str(resp.parts[4]) THEN
        IF float_ok(resp.parts[2]) /\ float_ok(resp.parts[3])
        THEN QuoteData(float(resp.parts[4]), 0)
        ELSE ErrorData("unknown_error", Detail("exception", 0))
    ELSE ErrorData("parse_failed", Detail("invalid_price", 0))

\* The loop of hs.py:170-178 over the SECURITY_CODE values.
RECURSIVE ConvertCodes(_)
ConvertCodes(data) ==
    IF data = <<>> THEN <<>>
    ELSE LET code == Head(data)
             rest == ConvertCodes(Tail(data))
         IN IF \/ startswith(code, <<"1", "1">>)
               \/ startswith(code, <<"1", "3">>)
               \/ startswith(code, <<"1", "4">>)
            THEN <<(<<"s", "h">> \o code)>> \o rest
            ELSE IF startswith(code, <<"1", "2">>)
            THEN <<(<<"s", "z">> \o code)>> \o rest
            ELSE rest

\* Returns the pair (codes_list, message); msg = "" stands for None.
get_cb_codes_from_eastmoney(resp) ==
    IF resp.exc = "RequestException" THEN
        [codes |-> <<>>, msg |-> Detail("network_error", 0)]
    ELSE IF resp.exc # "none" THEN
        [codes |-> <<>>, msg |-> Detail("unknown_error", 0)]
    ELSE IF resp.status_code # 200 THEN
        [codes |-> <<>>, msg |-> Detail("http_error", resp.status_code)]
    ELSE IF ~resp.json_ok THEN
        [codes |-> <<>>, msg |-> Detail("json_error", 0)]
    ELSE IF resp.code # 0 THEN
        [codes |-> <<>>, msg |-> Detail("api_error", resp.code)]
    ELSE IF ~resp.has_result THEN
        [codes |-> <<>>, msg |-> Detail("unknown_error", 0)]
    ELSE [codes |-> ConvertCodes(resp.data), msg |-> Detail("", 0)]

\* Variant: the ceiling MAX_CB_PRICE is not applied.
RECURSIVE CollectPrices_no_ceiling(_)
CollectPrices_no_ceiling(lines) ==
    IF lines = <<>> THEN <<>>
    ELSE LET line == Head(lines)
             rest == CollectPrices_no_ceiling(Tail(lines))
             matched == line.kind = "var" /\ line.parts # << <<>> >>
         IN IF /\ matched
               /\ Len(line.parts) > 3
               /\ is_price_str(line.parts[4])
               /\ RLess(R(0, 1), float(line.parts[4]))
            THEN <<float(line.parts[4])>> \o rest
            ELSE rest

\* The loop of hs.py:206-216: the prices kept, in line order.
RECURSIVE CollectPrices(_)
CollectPrices(lines) ==
    IF lines = <<>> THEN <<>>
    ELSE LET line == Head(lines)
             rest == CollectPrices(Tail(lines))
             matched == line.kind = "var" /\ line.parts # << <<>> >>
         IN IF /\ matched
               /\ Len(line.parts) > 3
               /\ is_price_str(line.parts[4])
               /\ RLess(R(0, 1), float(line.parts[4]))
               /\ RLess(float(line.parts[4]), R(MAX_CB_PRICE, 1))
            THEN <<float(line.parts[4])>> \o rest
            ELSE rest

RECURSIVE sum(_)
sum(prices) == IF prices = <<>> THEN R(0, 1) ELSE RAdd(Head(prices), sum(Tail(prices)))

\* `not data.strip()`: the body holds nothing but white space.
BodyIsBlank(lines) == \A i \in 1..Len(lines) : lines[i].kind = "blank"

get_cb_avg_price_from_list(codes, resp) ==
    IF codes = <<>> THEN
        ErrorData("calc_failed", Detail("empty_code_list", 0))
    ELSE IF resp.exc = "RequestException" THEN
        ErrorData("network_error", Detail("exception", 0))
    ELSE IF resp.exc # "none" THEN
        ErrorData("unknown_error", Detail("exception", 0))
    ELSE IF resp.status_code # 200 \/ BodyIsBlank(resp.lines) THEN
        ErrorData("fetch_failed", Detail("http_status", resp.status_code))
    ELSE LET prices == CollectPrices(resp.lines)
         IN IF prices = <<>> THEN
                ErrorData("calc_failed", Detail("no_valid_price", Len(codes)))
            ELSE QuoteData(RDiv(sum(prices), R(Len(prices), 1)), Len(prices))

----------------------------------------------------------------------------
(* The main block, statement by statement.                                 *)

\* final_data of hs.py:508-526; target_ratio is set by the next loop.
final_data(code, api_data) ==
    LET config == ALL_TARGET_CONFIGS[code]
        is_error == api_data.error # ""
    IN [code |-> code,
        target_price |-> config.target_price,
        is_error |-> is_error,
        error |-> api_data.error,
        detail |-> api_data.detail,
        current_price |-> api_data.current_price,
        count |-> api_data.count,
        name_count |-> IF config.type = "CB_AVG" /\ api_data.count # 0 /\ ~is_error
                       THEN api_data.count ELSE 0,
        target_ratio |-> None]

\* Variant: the deviation taken relative to the target price.
target_ratio_over_target(item) ==
    IF ~item.is_error /\ ~IsNone(item.current_price) /\ item.current_price.num # 0
    THEN RDiv(RSub(item.current_price, item.target_price), item.target_price)
    ELSE None

\* hs.py:532-537
target_ratio(item) ==
    IF ~item.is_error /\ ~IsNone(item.current_price) /\ item.current_price.num # 0
    THEN RDiv(RSub(item.current_price, item.target_price), item.current_price)
    ELSE None

with_ratios(data) ==
    [i \in 1..Len(data) |-> [data[i] EXCEPT !.target_ratio = target_ratio(data[i])]]

\* Variant: the key is the absolute value of the ratio.
KeyLess_abs(a, b) ==
    /\ ~IsNone(a.target_ratio)
    /\ (IsNone(b.target_ratio) \/ RLess(RAbs(a.target_ratio), RAbs(b.target_ratio)))

\* The sort key of hs.py:540 orders a before b: None stands for float('inf').
KeyLess(a, b) ==
    /\ ~IsNone(a.target_ratio)
    /\ (IsNone(b.target_ratio) \/ RLess(a.target_ratio, b.target_ratio))

\* x placed behind every element that does not come after it.
RECURSIVE InsertSorted(_, _)
InsertSorted(x, s) ==
    IF s = <<>> THEN <<x>>
    ELSE IF KeyLess(x, Head(s)) THEN <<x>> \o s
    ELSE <<Head(s)>> \o InsertSorted(x, Tail(s))

\* list.sort(key=...): stable, ascending.
RECURSIVE sort_by_ratio(_)
sort_by_ratio(data) ==
    IF data = <<>> THEN <<>>
    ELSE InsertSorted(data[Len(data)], sort_by_ratio(SubSeq(data, 1, Len(data) - 1)))

today_date == "2024-01-02"
OtherDate == "2024-01-01"

EmptyMap == [k \in {} |-> ""]
EmptyLog == [kind |-> "dict", map |-> EmptyMap]

\* The value load_notification_log returns, or kind "UnicodeDecodeError" when
\* json.load raises past the except clause.  io is the outcome of open/read.
load_notification_log(file, io) ==
    IF file.kind = "missing" THEN EmptyLog
    ELSE IF io = "IOError" THEN EmptyLog
    ELSE IF file.kind = "badutf8" THEN [kind |-> "UnicodeDecodeError", map |-> EmptyMap]
    ELSE IF file.kind = "badjson" THEN EmptyLog
    ELSE [kind |-> file.kind, map |-> file.map]

\* notification_log.get(code) of a dict; "None" for a missing key.
LogGet(log, code) == IF code \in DOMAIN log.map THEN log.map[code] ELSE "None"

LogSet(log, code, date) ==
    [log EXCEPT !.map = [k \in DOMAIN log.map \cup {code} |->
                            IF k = code THEN date ELSE log.map[k]]]

\* The file after save_notification_log; IOError is swallowed (hs.py:87-88).
save_notification_log(file, log_data, io) ==
    IF io = "ok" THEN [kind |-> "dict", map |-> log_data.map]
    ELSE IF io = "open_failed" THEN file
    ELSE [kind |-> "badjson", map |-> EmptyMap]

\* hs.py:92-99: requests.post is reached only with the key set.
posts_request(key_set) == key_set

\* The return value of hs.py:90-113.
send_serverchan_notification(key_set, resp) ==
    IF ~key_set THEN FALSE
    ELSE IF resp.exc # "none" THEN FALSE
    ELSE IF resp.status_code >= 400 THEN FALSE
    ELSE IF ~resp.json_ok THEN FALSE
    ELSE resp.code = 0

\* Variant: the log is looked up by display name, which is never one of its keys.
is_notified_today_by_name(log, item) == LogGet(log, "display name") = today_date

\* hs.py:556-562: whether the loop body reaches the push call for item.
is_triggered(item) == RLeq(RAbs(item.target_ratio), NOTIFICATION_TOLERANCE)
is_notified_today(log, item) == LogGet(log, item.code) = today_date

\* One table row of create_html_content (hs.py:272-312).
html_row(data) ==
    [code |-> data.code,
     price_display |-> IF data.is_error THEN "error" ELSE "price",
     price_color |-> IF data.is_error THEN "red"
                     ELSE IF RLeq(data.target_price, data.current_price) THEN "orange"
                     ELSE "green",
     ratio_display |-> IF ~data.is_error /\ ~IsNone(data.target_ratio)
                       THEN "percent" ELSE "N/A",
     ratio_color |-> IF data.is_error \/ IsNone(data.target_ratio) THEN "grey"
                     ELSE IF data.target_ratio.num < 0 THEN "green"
                     ELSE IF data.target_ratio.num > 0 THEN "orange"
                     ELSE "blue"]

create_html_content(stock_data_list) ==
    [i \in 1..Len(stock_data_list) |-> html_row(stock_data_list[i])]

----------------------------------------------------------------------------
(* What the environment can answer.                                        *)

MaxRuns == 2

AnyField == <<"1">>

SinaReply(exc, status_code, has_assign, parts) ==
    [exc |-> exc, status_code |-> status_code, has_assign |-> has_assign,
     parts |-> parts, lines |-> <<>>]

SinaQuote(open, prev, price) ==
    SinaReply("none", 200, TRUE, <<AnyField, open, prev, price>>)

\* Responses of http://hq.sinajs.cn/list=<api_code>, per lookup code.
SinaReplies(stock_api_code) ==
    CASE stock_api_code = "sh000001" ->
           { SinaReply("RequestException", 0, FALSE, <<>>),
             SinaReply("none", 200, FALSE, <<>>),
             SinaQuote(AnyField, AnyField, <<"3", "0", "0", "0">>),
             SinaQuote(AnyField, AnyField, <<"2", "9", "9", "0", ".", "5">>),
             SinaQuote(AnyField, AnyField, <<"3", "3", "0", "0">>) }
      [] stock_api_code = "sz399975" ->
           { SinaReply("none", 500, TRUE, <<>>),
             SinaReply("none", 200, TRUE, <<AnyField, AnyField, AnyField>>),
             SinaQuote(AnyField, AnyField, <<"0", ".", "0", "0">>),
             SinaQuote(AnyField, AnyField, <<"7", "0", "0">>) }
      [] stock_api_code = "fx_susdcny" ->
           { SinaQuote(<<>>, AnyField, <<"6", ".", "8">>),
             SinaQuote(AnyField, AnyField, <<"-", "6", ".", "8">>),
             SinaQuote(AnyField, AnyField, <<"6", ".", "8">>),
             SinaQuote(<<"-", "1">>, AnyField, <<"6", ".", "5">>) }

CodesReply(exc, status_code, json_ok, code, has_result, data) ==
    [exc |-> exc, status_code |-> status_code, json_ok |-> json_ok, code |-> code,
     has_result |-> has_result, data |-> data]

\* Responses of the bond-listing endpoint.
CodesReplies ==
    { CodesReply("RequestException", 0, FALSE, 0, FALSE, <<>>),
      CodesReply("none", 200, TRUE, 0, TRUE, << <<"9", "0", "0">> >>),
      CodesReply("none", 200, TRUE, 0, TRUE,
                 << <<"1", "1", "0">>, <<"1", "2", "3">>, <<"5", "0", "0">> >>) }

BatchReply(exc, status_code, lines) ==
    [exc |-> exc, status_code |-> status_code, has_assign |-> FALSE,
     parts |-> <<>>, lines |-> lines]

BondLine(price) == [kind |-> "var", parts |-> <<AnyField, AnyField, AnyField, price>>]

\* Responses of the batch request of get_cb_avg_price_from_list.
BatchReplies ==
    { BatchReply("none", 500, <<>>),
      BatchReply("none", 200, <<BondLine(<<"1", "1", "5">>), BondLine(<<"1", "1", "6">>)>>),
      BatchReply("none", 200, <<BondLine(<<"9", "9", "9", "9">>), BondLine(<<"1", "0", "0">>)>>) }

PushReply(exc, status_code, json_ok, code) ==
    [exc |-> exc, status_code |-> status_code, json_ok |-> json_ok, code |-> code]

\* Responses of the push service.
PushReplies ==
    { PushReply("RequestException", 0, FALSE, 0),
      PushReply("none", 500, FALSE, 0),
      PushReply("none", 200, FALSE, 0),
      PushReply("none", 200, TRUE, 40001),
      PushReply("none", 200, TRUE, 0) }

NoResponse == BatchReply("none", 0, <<>>)

\* Identifiers a log file may hold: a configured one and one no longer configured.
InitLogKeys == {"SSEC", "OLD"}
Dates == {today_date, OtherDate}

InitLogMaps == UNION {[keys -> Dates] : keys \in SUBSET InitLogKeys}

\* States of notification_log.json before a run.
InitLogFiles ==
    { [kind |-> k, map |-> EmptyMap] : k \in {"missing", "badutf8", "badjson", "nondict"} }
    \cup { [kind |-> "dict", map |-> m] : m \in InitLogMaps }

----------------------------------------------------------------------------
(* The state machine.                                                      *)

NoApiData == QuoteData(None, 0)
Unloaded == [kind |-> "unloaded", map |-> EmptyMap]

\* cb_config of hs.py:483: whether some target is of type CB_AVG.
cb_config == \E code \in TargetCodes : ALL_TARGET_CONFIGS[code].type = "CB_AVG"

\* The target the requests of hs.py:486-491 are made for.
cb_code == CHOOSE code \in TargetCodes : ALL_TARGET_CONFIGS[code].type = "CB_AVG"

\* One requests.get: the target it serves and the endpoint it goes to.
Request(code, endpoint) == [target |-> code, endpoint |-> endpoint]

\* Variant: the loop walks the configuration from its last entry to its first.
loop_target_reversed(i) == ConfigOrder[NumTargets + 1 - i]

\* hs.py:495: the key the i-th iteration over ALL_TARGET_CONFIGS.items() yields.
loop_target(i) == ConfigOrder[i]

RunLocalInit ==
    /\ pc = "cb_codes"
    /\ idx = 1
    /\ codes_list = <<>>
    /\ cb_error_msg = Detail("", 0)
    /\ cb_avg_data_for_display = NoApiData
    /\ response = NoResponse
    /\ all_stock_data = <<>>
    /\ notification_log = Unloaded
    /\ loaded_log = Unloaded
    /\ log_updated = FALSE
    /\ pushed = {}
    /\ push_failed = {}
    /\ push_posts = {}
    /\ log_writes = 0
    /\ html_content = <<>>
    /\ report_written = "none"
    /\ requests = <<>>

Init ==
    /\ RunLocalInit
    /\ run = 1
    /\ logFile \in InitLogFiles
    /\ file_at_start = logFile
    /\ sckey \in BOOLEAN
    /\ delivered = [code \in TargetCodes |-> 0]

\* hs.py:485-489
FetchCBCodes ==
    /\ pc = "cb_codes"
    /\ cb_config
    /\ \E resp \in CodesReplies :
          LET r == get_cb_codes_from_eastmoney(resp)
          IN /\ codes_list' = r.codes
             /\ cb_error_msg' = r.msg
             /\ requests' = Append(requests, Request(cb_code, "eastmoney"))
             /\ IF r.msg.msg # ""
                THEN /\ cb_avg_data_for_display' = ErrorData("codes_failed", r.msg)
                     /\ pc' = "fetch"
                ELSE /\ UNCHANGED cb_avg_data_for_display
                     /\ pc' = "cb_avg"
    /\ UNCHANGED <<idx, run, response, all_stock_data, notification_log, loaded_log,
                   log_updated, logFile, sckey, pushed, push_failed, push_posts, delivered,
                   log_writes, file_at_start, html_content, report_written>>

\* hs.py:491; no request is issued for an empty code list.
GetCbAvg ==
    /\ pc = "cb_avg"
    /\ \E resp \in BatchReplies :
          /\ response' = IF codes_list = <<>> THEN response ELSE resp
          /\ requests' = IF codes_list = <<>> THEN requests
                         ELSE Append(requests, Request(cb_code, "sina_batch"))
          /\ cb_avg_data_for_display' = get_cb_avg_price_from_list(codes_list, resp)
    /\ pc' = "fetch"
    /\ UNCHANGED <<idx, run, codes_list, cb_error_msg, all_stock_data, notification_log,
                   loaded_log, log_updated, logFile, sckey, pushed, push_failed, push_posts,
                   delivered, log_writes, file_at_start, html_content, report_written>>

\* One iteration of the loop of hs.py:495-526.
FetchTarget ==
    /\ pc = "fetch"
    /\ LET code == loop_target(idx)
           config == ALL_TARGET_CONFIGS[code]
       IN \/ /\ config.type = "SINA"
             /\ requests' = Append(requests, Request(code, config.api_code))
             /\ \E resp \in SinaReplies(config.api_code) :
                   /\ response' = resp
                   /\ all_stock_data' =
                         Append(all_stock_data,
                                final_data(code, get_data_sina(config.api_code, resp)))
          \/ /\ config.type = "CB_AVG"
             /\ all_stock_data' =
                   Append(all_stock_data, final_data(code, cb_avg_data_for_display))
             /\ UNCHANGED <<response, requests>>
    /\ idx' = IF idx = NumTargets THEN 1 ELSE idx + 1
    /\ pc' = IF idx = NumTargets THEN "ratio" ELSE "fetch"
    /\ UNCHANGED <<run, codes_list, cb_error_msg, cb_avg_data_for_display,
                   notification_log, loaded_log, log_updated, logFile, sckey, pushed,
                   push_failed, push_posts, delivered, log_writes, file_at_start, html_content,
                   report_written>>

\* hs.py:531-537
ComputeRatios ==
    /\ pc = "ratio"
    /\ all_stock_data' = with_ratios(all_stock_data)
    /\ pc' = "sort"
    /\ UNCHANGED <<idx, run, codes_list, cb_error_msg, cb_avg_data_for_display, response,
                   notification_log, loaded_log, log_updated, logFile, sckey, pushed,
                   push_failed, push_posts, delivered, log_writes, file_at_start, html_content,
                   report_written, requests>>

\* hs.py:540
SortData ==
    /\ pc = "sort"
    /\ all_stock_data' = sort_by_ratio(all_stock_data)
    /\ pc' = "load"
    /\ UNCHANGED <<idx, run, codes_list, cb_error_msg, cb_avg_data_for_display, response,
                   notification_log, loaded_log, log_updated, logFile, sckey, pushed,
                   push_failed, push_posts, delivered, log_writes, file_at_start, html_content,
                   report_written, requests>>

\* hs.py:547-549; an exception json.load lets through ends the process.
LoadLog ==
    /\ pc = "load"
    /\ \E io \in {"ok", "IOError"} :
          LET log == load_notification_log(logFile, io)
          IN IF log.kind = "UnicodeDecodeError"
             THEN /\ pc' = "aborted"
                  /\ UNCHANGED <<notification_log, loaded_log>>
             ELSE /\ pc' = "notify"
                  /\ notification_log' = log
                  /\ loaded_log' = log
    /\ UNCHANGED <<idx, run, codes_list, cb_error_msg, cb_avg_data_for_display, response,
                   all_stock_data, log_updated, logFile, sckey, pushed, push_failed, push_posts,
                   delivered, log_writes, file_at_start, html_content, report_written, requests>>

\* Variant: the entry is recorded whatever the push call returned.
record_result_always(log, code, send_success) == LogSet(log, code, today_date)

\* hs.py:582-584
record_result(log, code, send_success) ==
    IF send_success THEN LogSet(log, code, today_date) ELSE log

\* Variant: the log is saved at the end of every run.
after_notify_always(updated) == "save"

\* hs.py:586: where the script goes once the notifier loop is over.
after_notify(updated) == IF updated THEN "save" ELSE "render"

\* One iteration of the loop of hs.py:551-584.  A log that json.load returned
\* but that is no dict has no method get: AttributeError ends the process.
NotifyStep ==
    /\ pc = "notify"
    /\ LET item == all_stock_data[idx]
           last == idx = Len(all_stock_data)
       IN \/ /\ item.is_error \/ IsNone(item.target_ratio)
             /\ pc' = IF last THEN after_notify(log_updated) ELSE "notify"
             /\ idx' = idx + 1
             /\ UNCHANGED <<notification_log, log_updated, pushed, push_failed, push_posts, delivered>>
          \/ /\ ~(item.is_error \/ IsNone(item.target_ratio))
             /\ notification_log.kind # "dict"
             /\ pc' = "aborted"
             /\ UNCHANGED <<idx, notification_log, log_updated, pushed, push_failed, push_posts,
                            delivered>>
          \/ /\ ~(item.is_error \/ IsNone(item.target_ratio))
             /\ notification_log.kind = "dict"
             /\ ~(is_triggered(item) /\ ~is_notified_today(notification_log, item))
             /\ pc' = IF last THEN after_notify(log_updated) ELSE "notify"
             /\ idx' = idx + 1
             /\ UNCHANGED <<notification_log, log_updated, pushed, push_failed, push_posts, delivered>>
          \/ /\ ~(item.is_error \/ IsNone(item.target_ratio))
             /\ notification_log.kind = "dict"
             /\ is_triggered(item) /\ ~is_notified_today(notification_log, item)
             /\ \E resp \in PushReplies :
                   LET send_success == send_serverchan_notification(sckey, resp)
                   IN /\ pushed' = pushed \cup {item.code}
                      /\ push_posts' = IF posts_request(sckey)
                                       THEN push_posts \cup {item.code} ELSE push_posts
                      /\ push_failed' = IF send_success THEN push_failed
                                        ELSE push_failed \cup {item.code}
                      /\ delivered' = IF send_success
                                      THEN [delivered EXCEPT ![item.code] = @ + 1]
                                      ELSE delivered
                      /\ notification_log' =
                            record_result(notification_log, item.code, send_success)
                      /\ log_updated' = (log_updated \/ send_success)
                      /\ pc' = IF last THEN after_notify(log_updated') ELSE "notify"
             /\ idx' = idx + 1
    /\ UNCHANGED <<run, codes_list, cb_error_msg, cb_avg_data_for_display, response,
                   all_stock_data, loaded_log, logFile, sckey, log_writes, file_at_start,
                   html_content, report_written, requests>>

\* hs.py:587
SaveLog ==
    /\ pc = "save"
    /\ \E io \in {"ok", "open_failed", "write_failed"} :
          logFile' = save_notification_log(logFile, notification_log, io)
    /\ log_writes' = log_writes + 1
    /\ pc' = "render"
    /\ UNCHANGED <<idx, run, codes_list, cb_error_msg, cb_avg_data_for_display, response,
                   all_stock_data, notification_log, loaded_log, log_updated, sckey,
                   pushed, push_failed, push_posts, delivered, file_at_start, html_content,
                   report_written, requests>>

\* hs.py:592-599; a failed write is printed and swallowed.
WriteReport ==
    /\ pc = "render"
    /\ html_content' = create_html_content(all_stock_data)
    /\ \E io \in {"ok", "failed"} : report_written' = io
    /\ pc' = "done"
    /\ UNCHANGED <<idx, run, codes_list, cb_error_msg, cb_avg_data_for_display, response,
                   all_stock_data, notification_log, loaded_log, log_updated, logFile,
                   sckey, pushed, push_failed, push_posts, delivered, log_writes, file_at_start, requests>>

\* The scheduler starts the next run of the day once the previous process has
\* ended; only the log file and the day's deliveries outlive a process.
StartRun ==
    /\ pc \in {"done", "aborted"}
    /\ run < MaxRuns
    /\ run' = run + 1
    /\ pc' = "cb_codes"
    /\ idx' = 1
    /\ codes_list' = <<>>
    /\ cb_error_msg' = Detail("", 0)
    /\ cb_avg_data_for_display' = NoApiData
    /\ response' = NoResponse
    /\ all_stock_data' = <<>>
    /\ notification_log' = Unloaded
    /\ loaded_log' = Unloaded
    /\ log_updated' = FALSE
    /\ pushed' = {}
    /\ push_failed' = {}
    /\ push_posts' = {}
    /\ log_writes' = 0
    /\ html_content' = <<>>
    /\ report_written' = "none"
    /\ requests' = <<>>
    /\ file_at_start' = logFile
    /\ UNCHANGED <<logFile, sckey, delivered>>

RunStep ==
    \/ FetchCBCodes
    \/ GetCbAvg
    \/ FetchTarget
    \/ ComputeRatios
    \/ SortData
    \/ LoadLog
    \/ NotifyStep
    \/ SaveLog
    \/ WriteReport

\* One execution of the script.
Next == RunStep
Spec == Init /\ [][Next]_vars

\* The runs of one calendar day, one after the other.
NextDay == RunStep \/ StartRun
SpecDay == Init /\ [][NextDay]_vars

----------------------------------------------------------------------------
(* get_cb_avg_price_from_list on its own: any code list, any response.     *)

MaxLines == 3

AggPriceFields ==
    { <<>>, <<"-", "1">>, <<"0">>, <<"1", "0">>, <<"2", "0">>, <<"1", "1", "6", ".", "5">>,
      <<"1", "0", "0", "0">>, <<"9", "9", "9", "9">> }

\* Lines of a batch response: white space, a line that is no assignment, an
\* assignment of the empty string, one with too few fields, one per price field.
AggLines ==
    { [kind |-> "blank", parts |-> <<>>],
      [kind |-> "other", parts |-> <<AnyField, AnyField, AnyField, <<"1", "0">> >>],
      [kind |-> "var", parts |-> << <<>> >>],
      [kind |-> "var", parts |-> <<AnyField, AnyField, AnyField>>] }
    \cup { BondLine(price) : price \in AggPriceFields }

AggBodies == UNION { [1..n -> AggLines] : n \in 0..MaxLines }

AggReplies ==
    { BatchReply("RequestException", 0, <<>>), BatchReply("ValueError", 0, <<>>) }
    \cup { BatchReply("none", status_code, body) :
              status_code \in {200, 404}, body \in AggBodies }

AggCodeLists == { <<>>, << <<"s", "h", "1", "1", "0">> >> }

InitAgg ==
    /\ pc = "agg"
    /\ idx = 1
    /\ run = 1
    /\ codes_list \in AggCodeLists
    /\ cb_error_msg = Detail("", 0)
    /\ cb_avg_data_for_display = NoApiData
    /\ response \in AggReplies
    /\ all_stock_data = <<>>
    /\ notification_log = Unloaded
    /\ loaded_log = Unloaded
    /\ log_updated = FALSE
    /\ logFile = [kind |-> "missing", map |-> EmptyMap]
    /\ file_at_start = logFile
    /\ sckey = FALSE
    /\ pushed = {}
    /\ push_failed = {}
    /\ push_posts = {}
    /\ delivered = [code \in TargetCodes |-> 0]
    /\ log_writes = 0
    /\ html_content = <<>>
    /\ report_written = "none"
    /\ requests = <<>>

\* hs.py:187-229 applied to the code list and the response at hand.
ApplyAggregator ==
    /\ pc = "agg"
    /\ cb_avg_data_for_display' = get_cb_avg_price_from_list(codes_list, response)
    /\ pc' = "agg_done"
    /\ UNCHANGED <<idx, run, codes_list, cb_error_msg, response, all_stock_data,
                   notification_log, loaded_log, log_updated, logFile, sckey, pushed,
                   push_failed, push_posts, delivered, log_writes, file_at_start,
                   html_content, report_written, requests>>

NextAgg == ApplyAggregator
SpecAgg == InitAgg /\ [][NextAgg]_vars

----------------------------------------------------------------------------
(* Properties.                                                             *)

ItemAt(i) == all_stock_data[i]
ItemIndexes == 1..Len(all_stock_data)
HasRatio(item) == ~item.is_error /\ ~IsNone(item.target_ratio)
PushSucceeded == pushed \ push_failed

\* C1: over the runs of one calendar day, whatever the fetches, the push
\* deliveries and the reads and writes of the log file do, at most one push
\* is delivered for any target.
C1_AtMostOnePushPerDay == \A code \in TargetCodes : delivered[code] <= 1

\* A triggering target that the loaded log already records for today.
AlreadyNotified(item) ==
    /\ HasRatio(item)
    /\ is_triggered(item)
    /\ loaded_log.kind = "dict"
    /\ LogGet(loaded_log, item.code) = today_date

\* C2: for a triggering target the loaded log records for today the push call
\* is not made and the target's entry stays as loaded; when every triggering
\* target is so recorded, neither the mapping nor the file changes.
C2_NotifierIdempotent ==
    /\ \A i \in ItemIndexes :
          AlreadyNotified(ItemAt(i)) =>
              /\ ItemAt(i).code \notin pushed
              /\ LogGet(notification_log, ItemAt(i).code) = today_date
    /\ (\A i \in ItemIndexes :
           (HasRatio(ItemAt(i)) /\ is_triggered(ItemAt(i))) => AlreadyNotified(ItemAt(i)))
       => /\ notification_log = loaded_log
          /\ ~log_updated
          /\ log_writes = 0
          /\ logFile = file_at_start

C2_Witness ==
    /\ pc = "done"
    /\ \E i \in ItemIndexes : AlreadyNotified(ItemAt(i))

\* C3: a push call that does not report success leaves the target's entry of
\* the log as it was loaded, so not recorded for today; without the access key
\* no request is posted and every call fails.
C3_FailedPushLeavesLog ==
    /\ \A code \in push_failed :
          /\ LogGet(notification_log, code) = LogGet(loaded_log, code)
          /\ LogGet(notification_log, code) # today_date
          /\ LogGet(logFile, code) \in
                {LogGet(file_at_start, code), LogGet(loaded_log, code), "None"}
    /\ ~sckey => (push_posts = {} /\ pushed = push_failed)

C3_Witness ==
    /\ pc = "done"
    /\ sckey
    /\ push_failed # {}
    /\ log_writes = 1
    /\ logFile.kind = "dict"

\* The condition under which the notifier is to call the push service.
Eligible(item) ==
    /\ HasRatio(item)
    /\ is_triggered(item)
    /\ LogGet(loaded_log, item.code) # today_date

\* C4: in a run the push call is made for a target exactly when its record is
\* no error record, its ratio is non-null and within the tolerance, and the
\* log does not map its identifier to today's date.
C4_PushIffTriggered ==
    pc \in {"save", "render", "done", "aborted"} =>
        \A i \in ItemIndexes : (ItemAt(i).code \in pushed) <=> Eligible(ItemAt(i))

\* C5: the log file is written in a run only if a push succeeded and added an
\* entry; with no successful push it is not written and keeps its content.
C5_LogWrittenOnlyWhenChanged ==
    /\ log_writes <= 1
    /\ log_writes > 0 =>
          \E code \in PushSucceeded :
              /\ LogGet(notification_log, code) = today_date
              /\ LogGet(loaded_log, code) # today_date
    /\ PushSucceeded = {} => (log_writes = 0 /\ logFile = file_at_start)

C5_Witness ==
    /\ pc = "done"
    /\ pushed # {}
    /\ PushSucceeded = {}
    /\ file_at_start.kind = "missing"
    /\ logFile.kind = "missing"

\* C6: whatever the log file holds, loading it is not fatal: a missing or
\* corrupt file gives the empty mapping and the run goes on to its end.
C6_LoadNeverFatal ==
    file_at_start.kind # "dict" =>
        /\ pc # "aborted"
        /\ pc \in {"notify", "save", "render", "done"} => loaded_log = EmptyLog

\* The records a target can have, whatever the other targets' fetches gave.
IsolatedRecords(code) ==
    LET config == ALL_TARGET_CONFIGS[code]
    IN IF config.type = "SINA"
       THEN {final_data(code, get_data_sina(config.api_code, resp)) :
                resp \in SinaReplies(config.api_code)}
       ELSE {final_data(code, cb_avg_data_for_display)}

\* C7: whatever the fetches give, the run does not abort, the report has one
\* row per configured target, and a target's record is the one its own fetch
\* determines.
C7_ErrorsContained ==
    /\ pc # "aborted"
    /\ pc = "done" =>
          /\ Len(html_content) = NumTargets
          /\ {html_content[i].code : i \in 1..Len(html_content)} = TargetCodes
    /\ \A i \in ItemIndexes :
          /\ [ItemAt(i) EXCEPT !.target_ratio = None] \in IsolatedRecords(ItemAt(i).code)
          /\ ItemAt(i).is_error => IsNone(ItemAt(i).target_ratio)

\* C8: a record with a successful quote and a non-zero current price C has
\* ratio (C - T) / C, which is 0 exactly when C = T and negative exactly when
\* C < T; no fetcher yields a negative price.
C8_RatioFormula ==
    pc \in {"sort", "load", "notify", "save", "render", "done", "aborted"} =>
        \A i \in ItemIndexes :
            LET C == ItemAt(i).current_price
                T == ItemAt(i).target_price
                r == ItemAt(i).target_ratio
            IN (~ItemAt(i).is_error /\ ~IsNone(C) /\ C.num # 0) =>
                  /\ ~IsNone(r)
                  /\ C.num > 0
                  /\ r.num * (C.num * T.den) = r.den * (C.num * T.den - T.num * C.den)
                  /\ (r.num = 0 <=> C = T)
                  /\ (r.num < 0 <=> C.num * T.den < T.num * C.den)

C8_Witness ==
    /\ pc = "done"
    /\ \E i, j, k \in ItemIndexes :
          /\ HasRatio(ItemAt(i)) /\ ItemAt(i).target_ratio.num < 0
          /\ HasRatio(ItemAt(j)) /\ ItemAt(j).target_ratio.num = 0
          /\ HasRatio(ItemAt(k)) /\ ItemAt(k).target_ratio.num > 0

\* Ascending order of ratio, a null ratio counting as +infinity.
RatioBefore(a, b) ==
    /\ ~IsNone(a.target_ratio)
    /\ \/ IsNone(b.target_ratio)
       \/ a.target_ratio.num * b.target_ratio.den < b.target_ratio.num * a.target_ratio.den

PositionOf(data, code) == CHOOSE i \in 1..Len(data) : data[i].code = code

IsStableSortOf(after, before) ==
    /\ Len(after) = Len(before)
    /\ \E perm \in [1..Len(before) -> 1..Len(before)] :
          /\ \A i, j \in 1..Len(before) : perm[i] = perm[j] => i = j
          /\ \A i \in 1..Len(before) : after[i] = before[perm[i]]
    /\ \A i, j \in 1..Len(after) :
          i < j =>
              /\ ~RatioBefore(after[j], after[i])
              /\ IsNone(after[i].target_ratio) => IsNone(after[j].target_ratio)
              /\ ~RatioBefore(after[i], after[j]) =>
                    PositionOf(before, after[i].code) < PositionOf(before, after[j].code)

\* C9: the sort step leaves a permutation of the records in ascending order of
\* ratio with nulls as +infinity: nulls last, negative ratios first, records
\* with equal keys in their order of before.
C9_StableAscendingSort ==
    [][pc = "sort" => IsStableSortOf(all_stock_data', all_stock_data)]_vars

C9_Witness ==
    /\ pc = "load"
    /\ all_stock_data[1].target_ratio.num < 0
    /\ all_stock_data[1].code # ConfigOrder[1]
    /\ all_stock_data[2].target_ratio = all_stock_data[3].target_ratio
    /\ ~IsNone(all_stock_data[3].target_ratio)
    /\ IsNone(all_stock_data[4].target_ratio)

\* The lines of a response that carry a price p with 0 < p < MAX_CB_PRICE.
KeptLines(lines) ==
    {i \in 1..Len(lines) :
        /\ lines[i].kind = "var"
        /\ Len(lines[i].parts) > 3
        /\ is_price_str(lines[i].parts[4])
        /\ float(lines[i].parts[4]).num > 0
        /\ float(lines[i].parts[4]).num < MAX_CB_PRICE * float(lines[i].parts[4]).den}

RECURSIVE SumOfLines(_, _)
SumOfLines(lines, kept) ==
    IF kept = {} THEN R(0, 1)
    ELSE LET i == CHOOSE k \in kept : TRUE
         IN RAdd(float(lines[i].parts[4]), SumOfLines(lines, kept \ {i}))

\* C10: for any batch response the aggregator returns the arithmetic mean of
\* exactly the prices p with 0 < p < MAX_CB_PRICE and their number; with no
\* such price, or an empty code list, it returns an error record and never
\* divides by zero.
C10_AggregatorMean ==
    pc = "agg_done" =>
        LET res == cb_avg_data_for_display
            kept == KeptLines(response.lines)
            total == SumOfLines(response.lines, kept)
        IN /\ res.error = "" => res.current_price.den > 0
           /\ res.error # "" => IsNone(res.current_price)
           /\ codes_list = <<>> => res.error = "calc_failed"
           /\ (response.exc = "none" /\ response.status_code = 200 /\ kept = {})
                 => res.error \in {"calc_failed", "fetch_failed"}
           /\ (codes_list # <<>> /\ response.exc = "none" /\ response.status_code = 200
                 /\ kept # {})
                 => /\ res.error = ""
                    /\ res.count = Cardinality(kept)
                    /\ res.current_price.num * (Cardinality(kept) * total.den)
                          = total.num * res.current_price.den

C10_Witness ==
    /\ pc = "agg_done"
    /\ response.lines =
          <<BondLine(<<"1", "0">>), BondLine(<<"2", "0">>), BondLine(<<"9", "9", "9", "9">>)>>
    /\ cb_avg_data_for_display.current_price = R(15, 1)
    /\ cb_avg_data_for_display.count = 2

\* Position of a target in the configuration.
ConfigIndex(code) == CHOOSE i \in 1..NumTargets : ConfigOrder[i] = code

TypeOf(code) == ALL_TARGET_CONFIGS[code].type

\* Requests appear in the order in which their targets are configured.
RequestsInConfigOrder ==
    \A i, j \in DOMAIN requests :
        i < j => ConfigIndex(requests[i].target) <= ConfigIndex(requests[j].target)

\* The requests of the computed target come first, those of the directly
\* quoted targets follow in the order in which these targets are configured.
PrefetchThenConfigOrder ==
    \A i, j \in DOMAIN requests :
        i < j =>
            LET a == requests[i].target
                b == requests[j].target
            IN /\ ~(TypeOf(a) = "SINA" /\ TypeOf(b) = "CB_AVG")
               /\ (TypeOf(a) = "SINA" /\ TypeOf(b) = "SINA")
                     => ConfigIndex(a) <= ConfigIndex(b)

FetchLoopOver == pc \notin {"cb_codes", "cb_avg", "fetch", "agg", "agg_done"}
NotifierOver == pc \in {"save", "render", "done", "aborted"}

\* The records of all_stock_data put back in configuration order.
InConfigOrder ==
    [i \in 1..NumTargets |->
        CHOOSE item \in {ItemAt(k) : k \in ItemIndexes} : item.code = ConfigOrder[i]]

\* The targets the loop of hs.py:551-562 reaches the push call for when it
\* walks list from position i on, the log being log; it ends at the first
\* lookup in a log that is no dict.
RECURSIVE PushAttemptsFrom(_, _, _)
PushAttemptsFrom(list, i, log) ==
    IF i > Len(list) THEN {}
    ELSE IF list[i].is_error \/ IsNone(list[i].target_ratio)
         THEN PushAttemptsFrom(list, i + 1, log)
    ELSE IF log.kind # "dict" THEN {}
    ELSE (IF is_triggered(list[i]) /\ LogGet(log, list[i].code) # today_date
          THEN {list[i].code} ELSE {})
         \cup PushAttemptsFrom(list, i + 1, log)

\* Every target is fetched once the loop is over, wherever its record stands
\* in all_stock_data: one request per directly quoted target, the code-list
\* request and at most one batch request for the computed one.
FetchesIndependentOfOrder ==
    FetchLoopOver =>
        \A code \in TargetCodes :
            LET n == Cardinality({i \in DOMAIN requests : requests[i].target = code})
            IN IF TypeOf(code) = "SINA" THEN n = 1 ELSE n \in {1, 2}

\* The notifier attempts a push for the targets it would attempt one for had
\* the list been left in configuration order.
PushesIndependentOfOrder ==
    NotifierOver => pushed = PushAttemptsFrom(InConfigOrder, 1, loaded_log)

\* C11 as stated: the requests of a target are issued after those of every
\* target configured before it and before those of every target configured
\* after it, and the re-ordering by ratio changes neither the fetches made
\* nor the set of targets a push is attempted for.
C11_FetchInConfigOrder ==
    /\ RequestsInConfigOrder
    /\ FetchesIndependentOfOrder
    /\ PushesIndependentOfOrder

\* C11 as the code has it: the requests of the computed target (CB/AVG) are
\* issued first, before the loop; the directly quoted targets are then
\* fetched in configuration order; the re-ordering by ratio changes neither
\* the fetches made nor the set of targets a push is attempted for.
C11_PrefetchThenConfigOrder ==
    /\ PrefetchThenConfigOrder
    /\ FetchesIndependentOfOrder
    /\ PushesIndependentOfOrder

\* A finished run that issued the code-list request, the batch request and the
\* three quote requests, whose list the sort re-ordered, and that attempted a
\* push for the first and the last configured target.
C11_Witness ==
    /\ pc = "done"
    /\ Len(requests) = NumTargets + 1
    /\ requests[1].target = cb_code
    /\ requests[NumTargets + 1].target = ConfigOrder[NumTargets - 1]
    /\ ItemAt(1).code # ConfigOrder[1]
    /\ pushed = {ConfigOrder[1], ConfigOrder[NumTargets]}

\* The mapping held in memory differs from the mapping as loaded only in the
\* identifiers of targets whose push succeeded in this run, set to today_date.
MappingOnlyGrows ==
    notification_log.kind = "dict" =>
        /\ DOMAIN loaded_log.map \subseteq DOMAIN notification_log.map
        /\ \A k \in DOMAIN notification_log.map :
              IF k \in PushSucceeded
              THEN notification_log.map[k] = today_date
              ELSE /\ k \in DOMAIN loaded_log.map
                   /\ notification_log.map[k] = loaded_log.map[k]

\* The entries a file holds: none unless it holds a JSON object.
FileEntries(file) == IF file.kind = "dict" THEN file.map ELSE EmptyMap

\* A file that changed in the run holds every entry of the run's mapping that
\* the run did not set, unchanged, and no identifier the mapping has not.
RewrittenFileCarriesEntries ==
    logFile # file_at_start =>
        /\ DOMAIN FileEntries(logFile) \subseteq DOMAIN notification_log.map
        /\ \A k \in DOMAIN notification_log.map \ PushSucceeded :
              /\ k \in DOMAIN FileEntries(logFile)
              /\ FileEntries(logFile)[k] = notification_log.map[k]

\* Every entry the file had when the run started is still in the file, changed
\* only for a target whose push succeeded in this run.
FileKeepsEntries ==
    \A k \in DOMAIN FileEntries(file_at_start) :
        /\ k \in DOMAIN FileEntries(logFile)
        /\ \/ FileEntries(logFile)[k] = FileEntries(file_at_start)[k]
           \/ k \in PushSucceeded /\ FileEntries(logFile)[k] = today_date

\* C12: a run only adds to the notification log: it removes no key, the only
\* change it makes to the mapping is setting the identifier of a target whose
\* push succeeded in this run to today_date, and the entries of all other
\* identifiers, configured or not, are in the file unchanged once the file
\* is rewritten.
C12_RunOnlyAddsToLog ==
    /\ MappingOnlyGrows
    /\ RewrittenFileCarriesEntries
    /\ FileKeepsEntries

====
